---- MODULE Spec2Model ----
(***************************************************************************)
(* Transaction lifecycle of the Web3 client adapter                        *)
(* (backend/app/adapters/web3/web3_client_impl.py, class Web3ClientImpl)   *)
(* against the node it talks to.                                           *)
(*                                                                         *)
(* The client instance is the fields w3, network and chain_id.  The node   *)
(* is the environment: its liveness (nodeUp), the sender's transaction     *)
(* count (txCount), its pool of accepted transactions and the receipts of  *)
(* the mined ones.  Every client operation is a call: a coroutine whose    *)
(* position is pc and which is blocked, on an RPC or on asyncio.sleep,     *)
(* for another `wait` time units.  Time is the event loop's time(): it     *)
(* passes only while every running call is blocked, and a call that waits  *)
(* for a confirmation keeps loop.time() - start_time in `elapsed`.         *)
(***************************************************************************)
EXTENDS Integers, Sequences, FiniteSets, TLC

VARIABLES
    w3,         \* self.w3: None, or the network whose endpoint it points to
    middleware, \* self.w3.middleware_onion, and what the probe of connect met
    contracts,  \* self._contracts
    subscriptions, \* self._subscriptions
    log,        \* the records the client's logger was given
    network,    \* self.network
    chain_id,   \* self.chain_id
    nodeUp,     \* what the liveness probe w3.is_connected() answers
    abiExists,  \* whether contracts/<name>.json is on disk
    txCount,    \* the node's transaction count of the sender
    pool,       \* transactions the node accepted and has not mined yet
    receipts,   \* the node's receipt of each transaction hash
    calls,      \* the client operations in progress or ended
    amount,     \* a conversion between wei and ether in progress
    built,      \* value objects under construction
    asset,      \* an Asset aggregate and what its callers were given
    resolution, \* a run of PluginManager._resolve_dependencies
    manager,    \* a PluginManager: its active plugins and event subscriptions
    retry       \* a run of Web3ClientImpl._retry_on_failure

\* The state outside the client and its node.
\* The domain objects beside the value objects.
domainVars == <<asset, resolution, manager, retry>>

otherVars == <<amount, built, domainVars>>

\* The dictionaries of the instance.
caches == <<contracts, subscriptions>>

vars == <<w3, middleware, caches, log, network, chain_id, nodeUp, abiExists, txCount, pool, receipts, calls, otherVars>>

----------------------------------------------------------------------------
(* Bounds of the model *)

NumCalls == 2
MaxTimeout == 3
MaxRpcDelay == 1
MaxTokenId == 2
MaxChainStatus == 1
\* mint_nft waits with wait_for_transaction's default timeout, 150 polls.  The
\* model shortens the wait inside mint_nft to this many time units, so that two
\* concurrent waits stay explorable; the wait called on its own keeps the default.
MintWaitTimeout == 3
\* The gas the node estimates is a multiple of a plain transfer's, up to this
\* one; the gas price it answers is 1 up to MaxGasPrice.
MaxGasMultiple == 2
MaxGasPrice == 2
\* An int given to a conversion has up to this many digits.
MaxWeiDigits == 30
\* The strings given to a value object are up to this much shorter or longer
\* than the length the object asks for.
LenSlack == 1
\* An asset is followed until this many domain events were added to it.
MaxEvents == 6
\* Up to this many plugins are registered, each naming up to MaxDeps
\* dependencies.
NumPlugins == 3
MaxDeps == 2

\* The attempts and the first delay of a retried call.
MaxRetries == 3
MaxDelay == 2

(* Program constants *)

POLL_INTERVAL == 2
DEFAULT_TIMEOUT == 300
PLACEHOLDER_TOKEN_ID == 1
INTRINSIC_GAS == 21000

CallIds == 1..NumCalls
\* Hash 0 is the hash of no transaction the node ever sees; hash c is the hash of
\* the transaction call c signs; the last one is the hash of a transaction the
\* sender broadcast before.
EarlierHash == NumCalls + 1
TxIds == 0..EarlierHash
RpcDelays == 0..MaxRpcDelay
Timeouts == (0..MaxTimeout) \cup {DEFAULT_TIMEOUT}

None == "None"

----------------------------------------------------------------------------
(* Value objects of the port *)

\* HexBytes.hex() of a 32-byte transaction hash: '0x' and 64 hex digits.
HexOf(h) == [prefix |-> "0x", digits |-> h, len |-> 66]

InvalidHash == [prefix |-> "", digits |-> -1, len |-> 0]

\* TransactionHash.__post_init__: the value starts with '0x' and has 66 characters.
TransactionHash(s) ==
    IF s.prefix = "0x" /\ s.len = 66 THEN s ELSE InvalidHash

\* A str is the sequence of its characters.  The characters that matter to the
\* value objects: digits, hex letters of both cases, a letter that is no hex
\* digit, and the x of the prefix in both cases.
HexChars == {"0", "1", "a", "f", "A", "F"}

\* str.lower(), character by character
LowerChar(ch) ==
    CASE ch = "A" -> "a"
      [] ch = "F" -> "f"
      [] ch = "G" -> "g"
      [] ch = "X" -> "x"
      [] OTHER -> ch

Lower(s) == [i \in 1..Len(s) |-> LowerChar(s[i])]

\* value.startswith('0x')
StartsWith0x(s) == Len(s) >= 2 /\ s[1] = "0" /\ s[2] = "x"

ADDRESS_LENGTH == 42
HASH_LENGTH == 66

\* What TransactionHash.__post_init__ looks at in a str.
Shape(s) == [prefix |-> IF StartsWith0x(s) THEN "0x" ELSE "", digits |-> s, len |-> Len(s)]

\* __post_init__ raised ValueError: no object is made.
Invalid == [ok |-> FALSE, value |-> <<>>]

\* A frozen dataclass with the one field value.
Value(s) == [ok |-> TRUE, value |-> s]

\* ContractAddress.__post_init__
ContractAddress(s) ==
    IF ~StartsWith0x(s) \/ Len(s) # ADDRESS_LENGTH THEN Invalid ELSE Value(s)

\* WalletAddress.__post_init__
WalletAddress(s) ==
    IF ~StartsWith0x(s) \/ Len(s) # ADDRESS_LENGTH THEN Invalid ELSE Value(s)

\* Address.__post_init__ of the domain
Address(s) ==
    IF ~StartsWith0x(s) \/ Len(s) # ADDRESS_LENGTH THEN Invalid ELSE Value(s)

\* TransactionHash(s) of a str s
TransactionHashOf(s) ==
    IF TransactionHash(Shape(s)).len = HASH_LENGTH THEN Value(s) ELSE Invalid

ValueClasses == {"WalletAddress", "ContractAddress", "Address", "TransactionHash"}

AddressClasses == {"WalletAddress", "ContractAddress", "Address"}

\* cls(s)
Construct(cls, s) ==
    CASE cls = "WalletAddress" -> WalletAddress(s)
      [] cls = "ContractAddress" -> ContractAddress(s)
      [] cls = "Address" -> Address(s)
      [] cls = "TransactionHash" -> TransactionHashOf(s)

\* The dataclass's __eq__: the fields are compared.
Equal(v, u) == v.value = u.value

NoBuilt == [pc |-> "-", cls |-> "-", text |-> <<>>, first |-> Invalid,
            other |-> <<>>, second |-> Invalid]

\* TransactionStatus
PENDING == "pending"
CONFIRMED == "confirmed"
FAILED == "failed"
DROPPED == "dropped"

----------------------------------------------------------------------------
(* Amounts: Python's int and decimal.Decimal *)

\* An int of any size is its decimal digits, the most significant first.
Zeros(n) == [i \in 1..n |-> 0]

RECURSIVE Digits(_)
Digits(n) == IF n < 10 THEN <<n>> ELSE Append(Digits(n \div 10), n % 10)

RECURSIVE StripZeros(_)
StripZeros(ds) ==
    IF Len(ds) > 1 /\ ds[1] = 0 THEN StripZeros(Tail(ds)) ELSE ds

\* A Decimal is coef * 10^exp, coef an int.
Dec(coef, exp) == [coef |-> coef, exp |-> exp]

\* Decimal(n) of an int n is exact.
DecimalOf(n) == Dec(n, 0)

\* The conversions never set the context: results are rounded to the default
\* context's 28 significant digits, halves to even.
DecimalPrec == 28

\* 10**18
WeiDecimals == 18

RECURSIVE Increment(_)
Increment(ds) ==
    IF ds = <<>> THEN <<1>>
    ELSE IF ds[Len(ds)] < 9 THEN [ds EXCEPT ![Len(ds)] = @ + 1]
    ELSE Append(Increment(SubSeq(ds, 1, Len(ds) - 1)), 0)

\* ROUND_HALF_EVEN on the digits that do not fit.
RoundsUp(kept, dropped) ==
    \/ dropped[1] > 5
    \/ /\ dropped[1] = 5
       /\ \E i \in 2..Len(dropped) : dropped[i] # 0
    \/ /\ dropped[1] = 5
       /\ \A i \in 2..Len(dropped) : dropped[i] = 0
       /\ kept[Len(kept)] % 2 = 1

\* The context's rounding of an arithmetic result.
Round(d) ==
    IF Len(d.coef) <= DecimalPrec THEN d
    ELSE LET kept == SubSeq(d.coef, 1, DecimalPrec)
             dropped == SubSeq(d.coef, DecimalPrec + 1, Len(d.coef))
             up == IF RoundsUp(kept, dropped) THEN Increment(kept) ELSE kept
             e == d.exp + Len(dropped)
         IN  IF Len(up) > DecimalPrec
             THEN Dec(SubSeq(up, 1, DecimalPrec), e + 1)
             ELSE Dec(up, e)

\* d / Decimal(10**k)
DividedByPowerOfTen(d, k) == Round(Dec(d.coef, d.exp - k))

\* d * Decimal(10**k)
TimesPowerOfTen(d, k) == Round(Dec(d.coef \o Zeros(k), d.exp))

\* int(d): the fraction is cut off.
IntOf(d) ==
    IF d.exp >= 0 THEN StripZeros(d.coef \o Zeros(d.exp))
    ELSE IF Len(d.coef) <= -d.exp THEN <<0>>
    ELSE StripZeros(SubSeq(d.coef, 1, Len(d.coef) + d.exp))

\* return Decimal(wei_amount) / Decimal(10**18)
wei_to_ether(wei_amount) == DividedByPowerOfTen(DecimalOf(wei_amount), WeiDecimals)

\* return int(ether_amount * Decimal(10**18))
ether_to_wei(ether_amount) == IntOf(TimesPowerOfTen(ether_amount, WeiDecimals))

NoAmount == [pc |-> "-", wei |-> <<>>, ether |-> Dec(<<>>, 0), back |-> <<>>]

----------------------------------------------------------------------------
(* The domain objects while nobody uses them *)

\* No asset is under consideration.
NoAsset == [status |-> "-"]

\* No resolution is under way.
NoResolution == [pc |-> "-"]

\* The event types plugins subscribe to.
EventTypes == {"asset.minted", "asset.sold"}

\* PluginManager(): no active plugin, no subscription.  `called` lists the
\* plugins the operation in progress has called, `logged` counts the errors it
\* logged, `propagated` says that an exception left it.
NoManager ==
    [pc |-> "-", i |-> 0, active |-> <<>>, subs |-> [t \in EventTypes |-> <<>>],
     event |-> "-", called |-> <<>>, logged |-> 0, propagated |-> FALSE]

\* No run of _retry_on_failure.
NoRetry == [pc |-> "-"]

----------------------------------------------------------------------------
(* The node *)

MintEvent == "ArtworkMinted"
OtherEvent == "Transfer"

LogEntry(e, t) == [event |-> e, tokenId |-> t]

\* The logs a successful transaction may emit: with or without the mint event,
\* the mint event at any index.
LogChoices ==
    {<<>>, <<LogEntry(OtherEvent, 0)>>}
    \cup {<<LogEntry(MintEvent, t)>> : t \in 1..MaxTokenId}
    \cup {<<LogEntry(OtherEvent, 0), LogEntry(MintEvent, t)>> : t \in 1..MaxTokenId}

NoReceipt == [present |-> FALSE, status |-> 0, logs |-> <<>>]

ChainReceipt(s, l) == [present |-> TRUE, status |-> s, logs |-> l]

\* The node mines the pool's transaction that carries the sender's next nonce.
\* A transaction that does not succeed emits no logs.
Mine ==
    \E tx \in pool, s \in 0..MaxChainStatus :
        \E l \in (IF s = 1 THEN LogChoices ELSE {<<>>}) :
            /\ tx.nonce = txCount
            /\ receipts' = [receipts EXCEPT ![tx.hash] = ChainReceipt(s, l)]
            /\ pool' = pool \ {tx}
            /\ txCount' = txCount + 1
            /\ UNCHANGED <<w3, middleware, caches, log, network, chain_id, nodeUp, abiExists, calls, otherVars>>

\* The endpoint becomes unreachable, or reachable again.
NodeFlip ==
    /\ nodeUp' = ~nodeUp
    /\ UNCHANGED <<w3, middleware, caches, log, network, chain_id, abiExists, txCount, pool, receipts, calls, otherVars>>

----------------------------------------------------------------------------
(* Calls *)

NoOut == [kind |-> "-", cause |-> "-", text |-> {}, http |-> 0, status |-> "-", logs |-> <<>>,
          token |-> 0, hash |-> InvalidHash, elapsed |-> 0,
          gas_limit |-> 0, gas_price |-> 0, estimated_cost |-> Dec(<<>>, 0)]

IdleCall == [op |-> "-", pc |-> "idle", wait |-> 0, hash |-> InvalidHash,
             timeout |-> 0, elapsed |-> 0, polled |-> FALSE, keyOk |-> TRUE,
             gasGiven |-> FALSE, nonce |-> -1, answer |-> "-", txh |-> -1,
             nonceAge |-> 0, broadcasts |-> 0, royalty |-> 0, api |-> FALSE,
             seen |-> "-",
             reverted |-> FALSE, nodeGas |-> 0, nodePrice |-> 0,
             out |-> NoOut]

Running(c) == calls[c].pc \notin {"idle", "done"}

\* The exception's text quotes the key it was given.
TextOfMutant(kind, cause) ==
    IF kind = "NetworkNotConnectedError" THEN {"literal"}
    ELSE IF cause = "timeout" THEN {"literal", "tx_hash"}
    ELSE IF cause = "key" THEN {"literal", "exception_text", "private_key"}
    ELSE {"literal", "exception_text"}

\* What the text of a raised error is made of: the words of the raise
\* statement, and for the handlers around a whole body the text of the
\* exception they caught, str(e).  The signing library's text for a key it
\* refuses gives the key's length.
TextOf(kind, cause) ==
    IF kind = "NetworkNotConnectedError" THEN {"literal"}
    ELSE IF cause = "timeout" THEN {"literal", "tx_hash"}
    ELSE IF cause = "key" THEN {"literal", "exception_text", "key_length"}
    ELSE {"literal", "exception_text"}

\* The status the wallet-balance endpoint answers with: 503 without a client,
\* 400 for a ValueError, 500 for every other exception, 200 with the balance.
HttpStatus(kind, cause) ==
    IF kind = "ok" THEN 200
    ELSE IF cause = "no_client" THEN 503
    ELSE IF kind = "ValueError" THEN 400
    ELSE 500

\* The call returns a value.
Returned(cl, o) ==
    [cl EXCEPT !.pc = "done", !.wait = 0, !.elapsed = 0,
               !.out = [o EXCEPT !.elapsed = cl.elapsed,
                                 !.http = IF cl.api THEN HttpStatus("ok", "-") ELSE 0]]

\* The call raises an exception of class kind; cause is the step that failed.
Raised(cl, kind, cause) ==
    [cl EXCEPT !.pc = "done", !.wait = 0, !.elapsed = 0,
               !.out = [NoOut EXCEPT !.kind = kind, !.cause = cause,
                                     !.text = TextOf(kind, cause),
                                     !.http = IF cl.api THEN HttpStatus(kind, cause) ELSE 0,
                                     !.elapsed = cl.elapsed]]

Ended(c) == calls[c].pc = "done"
Failed(c) == Ended(c) /\ calls[c].out.kind # "ok"
Succeeded(c) == Ended(c) /\ calls[c].out.kind = "ok"

Waiting(c) == calls[c].pc = "wait"

\* Time passes until the first blocked call is due, while all are blocked.
Advance ==
    /\ \E c \in CallIds : Running(c)
    /\ \A c \in CallIds : Running(c) => calls[c].wait > 0
    /\ \E c \in CallIds :
          /\ Running(c)
          /\ \A d \in CallIds : Running(d) => calls[c].wait <= calls[d].wait
          /\ calls' = [d \in CallIds |->
                         IF ~Running(d) THEN calls[d]
                         ELSE [calls[d] EXCEPT
                                 !.wait = @ - calls[c].wait,
                                 !.elapsed = IF Waiting(d) THEN @ + calls[c].wait ELSE @]]
    /\ UNCHANGED <<w3, middleware, caches, log, network, chain_id, nodeUp, abiExists, txCount, pool, receipts, otherVars>>

----------------------------------------------------------------------------
(* Chain connection *)

Networks == {"mainnet", "sepolia", "polygon", "mumbai", "localhost"}

\* network_configs[network]["chain_id"]
ChainIdOf(net) ==
    CASE net = "mainnet" -> 1
      [] net = "sepolia" -> 11155111
      [] net = "polygon" -> 137
      [] net = "mumbai" -> 80001
      [] net = "localhost" -> 31337

\* The networks connect injects geth_poa_middleware for.
PoANetworks == {"sepolia", "mumbai", "localhost"}

\* The onion of a Web3 just made: no shim, and no call made through it yet.
FreshOnion == [poa |-> FALSE, bareProbe |-> FALSE]

\* middleware_onion.inject(geth_poa_middleware, layer=0), for the networks that
\* get it.
Inject(net, onion) ==
    IF net \in PoANetworks THEN [onion EXCEPT !.poa = TRUE] ELSE onion

\* The liveness probe of connect goes through the onion as it is then.
Probe(onion) == [onion EXCEPT !.bareProbe = ~onion.poa]

\* The shim is injected after the probe.
ConnectOnionMutant(net) == Inject(net, Probe(FreshOnion))

\* The onion connect leaves: made, shimmed where needed, then probed.
ConnectOnion(net) == Probe(Inject(net, FreshOnion))

\* What connect logs: the network's name and chain id at level info when the
\* probe answered, else the network and the text of the exception at level
\* error.
ConnectRecord(answered) ==
    IF answered THEN [level |-> "info", parts |-> {"literal", "network_name", "chain_id"}]
    ELSE [level |-> "error", parts |-> {"literal", "network", "exception_text"}]

\* connect: w3 is replaced first; network and chain_id are set only when the
\* liveness probe answers; any failure is logged and False is returned.
Connect(net) ==
    /\ w3' = net
    /\ middleware' = ConnectOnion(net)
    /\ IF nodeUp
          THEN network' = net /\ chain_id' = ChainIdOf(net)
          ELSE UNCHANGED <<network, chain_id>>
    /\ log' = log \cup {ConnectRecord(nodeUp)}
    /\ UNCHANGED <<caches, nodeUp, abiExists, txCount, pool, receipts, calls, otherVars>>

\* is_connected: False without a w3, else the liveness probe.
IsConnected == w3 # None /\ nodeUp

----------------------------------------------------------------------------
(* Receipts and the confirmation wait *)

ReceiptStatusMutant(s) == IF s = 1 THEN FAILED ELSE CONFIRMED

\* status = CONFIRMED if receipt.status == 1 else FAILED
ReceiptStatus(s) == IF s = 1 THEN CONFIRMED ELSE FAILED

NotConnectedError == [NoOut EXCEPT !.kind = "NetworkNotConnectedError", !.cause = "not_connected"]

ReturnedNone == [NoOut EXCEPT !.kind = "ok", !.status = None]

\* get_transaction_receipt(tx_hash): the result of one query.  The node's call
\* raises when it has no receipt for the hash or when the request fails (rpcOk
\* false); every exception inside the try block gives None.  The cause of a
\* None is kept beside it: "rpc" when the request failed.
GetTransactionReceipt(h, rpcOk) ==
    IF ~IsConnected
    THEN NotConnectedError
    ELSE IF ~rpcOk
         THEN [ReturnedNone EXCEPT !.cause = "rpc"]
    ELSE IF receipts[h.digits].present
         THEN [NoOut EXCEPT !.kind = "ok",
                            !.status = ReceiptStatus(receipts[h.digits].status),
                            !.logs = receipts[h.digits].logs,
                            !.hash = h]
         ELSE ReturnedNone

IsReceipt(r) == r.kind = "ok" /\ r.status # None

\* asyncio.get_event_loop().time() - start_time > timeout
TimedOut(cl) == cl.elapsed > cl.timeout

TimeoutError == [NoOut EXCEPT !.kind = "TransactionFailedError", !.cause = "timeout"]

StillPending == [NoOut EXCEPT !.kind = "pending"]

\* The deadline is checked before the receipt is looked at.
WaitIterationMutant(cl, rpcOk) ==
    LET r == GetTransactionReceipt(cl.hash, rpcOk) IN
    IF r.kind # "ok" THEN r
    ELSE IF TimedOut(cl) THEN TimeoutError
    ELSE IF IsReceipt(r) THEN r
    ELSE StillPending

\* One iteration of wait_for_transaction's loop, up to the sleep: the receipt is
\* queried, then the deadline is checked.
WaitIteration(cl, rpcOk) ==
    LET r == GetTransactionReceipt(cl.hash, rpcOk) IN
    IF r.kind # "ok" THEN r
    ELSE IF IsReceipt(r) THEN r
    ELSE IF TimedOut(cl) THEN TimeoutError
    ELSE StillPending

\* How the operation that waits ends with the result r of the wait.
EndWait(cl, r) ==
    IF r.kind = "ok"
    THEN Returned(cl, r)
    ELSE Raised(cl, r.kind, r.cause)

\* wait_for_transaction(tx_hash, timeout) is called: start_time is read and the
\* first receipt query is issued.
StartWait(c, h, t) ==
    /\ calls[c].pc = "idle"
    /\ \E d \in RpcDelays :
          calls' = [calls EXCEPT ![c] =
                      [@ EXCEPT !.op = "wait", !.pc = "wait", !.hash = TransactionHash(HexOf(h)),
                                !.timeout = t, !.elapsed = 0, !.wait = d]]
    /\ UNCHANGED <<w3, middleware, caches, log, network, chain_id, nodeUp, abiExists, txCount, pool, receipts, otherVars>>

\* A receipt query of the wait completes; the loop returns, raises, or sleeps
\* POLL_INTERVAL and issues the next query.  What the query answered is kept in
\* `seen`.
WaitPoll(c) ==
    /\ calls[c].pc = "wait"
    /\ calls[c].op = "wait"
    /\ calls[c].wait = 0
    /\ \E rpcOk \in BOOLEAN, d \in RpcDelays :
          LET r == WaitIteration(calls[c], rpcOk)
              q == GetTransactionReceipt(calls[c].hash, rpcOk)
              answered == IF q.kind # "ok" THEN "not_connected"
                          ELSE IF IsReceipt(q) THEN "receipt"
                          ELSE "no_receipt"
          IN
          calls' = [calls EXCEPT ![c] =
                      IF r.kind = "pending"
                      THEN [@ EXCEPT !.wait = POLL_INTERVAL + d, !.polled = TRUE,
                                     !.seen = answered]
                      ELSE [EndWait(@, r) EXCEPT !.seen = answered]]
    /\ UNCHANGED <<w3, middleware, caches, log, network, chain_id, nodeUp, abiExists, txCount, pool, receipts, otherVars>>

\* get_transaction_receipt(tx_hash) is called.
StartReceipt(c, h) ==
    /\ calls[c].pc = "idle"
    /\ \E d \in RpcDelays :
          calls' = [calls EXCEPT ![c] =
                      [@ EXCEPT !.op = "receipt", !.pc = "receipt",
                                !.hash = TransactionHash(HexOf(h)), !.elapsed = 0,
                                !.wait = d]]
    /\ UNCHANGED <<w3, middleware, caches, log, network, chain_id, nodeUp, abiExists, txCount, pool, receipts, otherVars>>

\* The query of get_transaction_receipt completes.
ReceiptDone(c) ==
    /\ calls[c].pc = "receipt"
    /\ calls[c].wait = 0
    /\ \E rpcOk \in BOOLEAN :
          calls' = [calls EXCEPT ![c] = EndWait(@, GetTransactionReceipt(@.hash, rpcOk))]
    /\ UNCHANGED <<w3, middleware, caches, log, network, chain_id, nodeUp, abiExists, txCount, pool, receipts, otherVars>>

----------------------------------------------------------------------------
(* The confirmation wait on its own: receipts of transactions broadcast      *)
(* earlier, queried and waited for.                                          *)

\* A transaction the sender broadcast before: accepted by the node, not mined.
EarlierTx == [hash |-> EarlierHash, nonce |-> 0]

InitClient ==
    /\ w3 = None
    /\ middleware = FreshOnion
    /\ contracts = <<>>
    /\ subscriptions = <<>>
    /\ log = {}
    /\ network = None
    /\ chain_id = None
    /\ nodeUp \in BOOLEAN
    /\ abiExists \in BOOLEAN
    /\ txCount = 0
    /\ receipts = [h \in TxIds |-> NoReceipt]
    /\ calls = [c \in CallIds |-> IdleCall]
    /\ amount = NoAmount
    /\ built = NoBuilt
    /\ asset = NoAsset
    /\ resolution = NoResolution
    /\ manager = NoManager
    /\ retry = NoRetry

InitWait ==
    /\ InitClient
    /\ pool = {EarlierTx}

\* One caller at a time suffices for the wait: the loop shares no client state.
WaitCallers == {1}

NextWait ==
    \/ Connect("localhost")
    \/ NodeFlip
    \/ Mine
    \/ Advance
    \/ \E c \in WaitCallers, h \in TxIds, t \in Timeouts : StartWait(c, h, t)
    \/ \E c \in WaitCallers, h \in TxIds : StartReceipt(c, h)
    \/ \E c \in WaitCallers : WaitPoll(c)
    \/ \E c \in WaitCallers : ReceiptDone(c)

SpecWait == InitWait /\ [][NextWait]_vars

----------------------------------------------------------------------------
(* Building, signing and broadcasting *)

\* The transaction call c signs: its hash is c, its nonce the one c read.
SignedTx(c) == [hash |-> c, nonce |-> calls[c].nonce]

\* send_raw_transaction at the node: a transaction is taken into the pool when its
\* nonce is the sender's next one and no pooled transaction carries that nonce.
NodeTakes(tx) ==
    /\ tx.nonce = txCount
    /\ \A p \in pool : p.nonce # tx.nonce

\* What a broadcast can answer: "accepted", or the reason of the refusal.
\* The request fails while the node is unreachable ("rpc"); the node refuses a
\* used nonce ("nonce"), and may refuse for a reason of its own, such as an
\* underpriced transaction or insufficient funds ("rejected").
BroadcastAnswers(tx) ==
    IF ~nodeUp THEN {"rpc"}
    ELSE IF NodeTakes(tx) THEN {"accepted", "rejected", "rpc"}
    ELSE {"nonce", "rpc"}

\* What a read-only RPC can answer while the node is reachable or not.
RpcAnswers == IF nodeUp THEN {TRUE, FALSE} ELSE {FALSE}

\* What _run_sync(self.w3.eth.gas_price) can give.  The attribute is handed to
\* the executor as the function to call.  The request to the node may fail
\* ("rpc"); called as a function the attribute gives the price ("price"); where
\* it is a property of the library's Eth, the attribute access has already
\* yielded the price as an int and calling the int raises TypeError
\* ("type_error").
GasPriceAnswers == IF nodeUp THEN {"price", "type_error", "rpc"} ELSE {"rpc"}

\* mint_nft: except Exception as e: raise ContractInteractionError(...)
MintError(cause) == [NoOut EXCEPT !.kind = "ContractInteractionError", !.cause = cause]

\* send_transaction: except Exception as e: raise TransactionFailedError(...)
SendError(cause) == [NoOut EXCEPT !.kind = "TransactionFailedError", !.cause = cause]

Raise(cl, e) == Raised(cl, e.kind, e.cause)

BroadcastRefusedMutant(cl, e) ==
    IF cl.broadcasts < 3 THEN [cl EXCEPT !.wait = 0] ELSE Raise(cl, e)

\* send_raw_transaction raised: the handler around the whole body wraps the
\* exception and raises; the call is not made again (_retry_on_failure is
\* called nowhere).
BroadcastRefused(cl, e) == Raise(cl, e)

\* NFTMetadata.royalty_bps is any int: the dataclass checks nothing.
RoyaltyChoices == {-1, 0, 10000, 10001}

\* mint_nft is called: the ABI is loaded, the contract object is made from
\* self.w3, the account is made from the key, and mintingFee() is queried.
StartMint(c, keyOk, royalty_bps) ==
    /\ calls[c].pc = "idle"
    /\ \E d \in RpcDelays :
          calls' = [calls EXCEPT ![c] =
                      LET cl == [@ EXCEPT !.op = "mint", !.keyOk = keyOk,
                                          !.royalty = royalty_bps] IN
                      IF ~abiExists THEN Raise(cl, MintError("abi"))
                      ELSE IF w3 = None THEN Raise(cl, MintError("no_w3"))
                      ELSE IF ~keyOk THEN Raise(cl, MintError("key"))
                      ELSE [cl EXCEPT !.pc = "m_fee", !.wait = d]]
    /\ UNCHANGED <<w3, middleware, caches, log, network, chain_id, nodeUp, abiExists, txCount, pool, receipts, otherVars>>

\* mintingFee().call answers; the call of mintArtwork is made from the fields
\* of the metadata as they are, and get_transaction_count is queried.  The
\* client checks no field; the library's encoder refuses a negative number for
\* the contract's unsigned parameter.
MintFee(c) ==
    /\ calls[c].pc = "m_fee"
    /\ calls[c].wait = 0
    /\ \E ok \in RpcAnswers, d \in RpcDelays :
          calls' = [calls EXCEPT ![c] =
                      IF ~ok THEN Raise(@, MintError("rpc"))
                      ELSE IF @.royalty < 0 THEN Raise(@, MintError("encode"))
                      ELSE [@ EXCEPT !.pc = "m_nonce", !.wait = d]]
    /\ UNCHANGED <<w3, middleware, caches, log, network, chain_id, nodeUp, abiExists, txCount, pool, receipts, otherVars>>

\* get_transaction_count answers the nonce; gas_price is queried: one more
\* request to the node since the nonce was read.
MintNonce(c) ==
    /\ calls[c].pc = "m_nonce"
    /\ calls[c].wait = 0
    /\ \E ok \in RpcAnswers, d \in RpcDelays :
          calls' = [calls EXCEPT ![c] =
                      IF ~ok THEN Raise(@, MintError("nonce_read"))
                      ELSE [@ EXCEPT !.pc = "m_gas", !.nonce = txCount, !.wait = d,
                                     !.nonceAge = @ + 1]]
    /\ UNCHANGED <<w3, middleware, caches, log, network, chain_id, nodeUp, abiExists, txCount, pool, receipts, otherVars>>

\* gas_price answers; the transaction is built and signed and send_raw_transaction
\* is issued.
MintGas(c) ==
    /\ calls[c].pc = "m_gas"
    /\ calls[c].wait = 0
    /\ \E a \in GasPriceAnswers, d \in RpcDelays :
          calls' = [calls EXCEPT ![c] =
                      IF a # "price" THEN Raise(@, MintError(a))
                      ELSE [@ EXCEPT !.pc = "m_send", !.wait = d]]
    /\ UNCHANGED <<w3, middleware, caches, log, network, chain_id, nodeUp, abiExists, txCount, pool, receipts, otherVars>>

\* send_raw_transaction answers; on acceptance wait_for_transaction is entered
\* with the default timeout: start_time is read and the first query issued.
MintSend(c) ==
    /\ calls[c].pc = "m_send"
    /\ calls[c].wait = 0
    /\ \E a \in BroadcastAnswers(SignedTx(c)), d \in RpcDelays :
          /\ pool' = IF a = "accepted" THEN pool \cup {SignedTx(c)} ELSE pool
          /\ calls' = [calls EXCEPT ![c] =
                      IF a # "accepted"
                      THEN BroadcastRefused([@ EXCEPT !.answer = a, !.broadcasts = @ + 1],
                                            MintError(a))
                      ELSE [@ EXCEPT !.pc = "wait", !.answer = a, !.broadcasts = @ + 1,
                                     !.txh = SignedTx(c).hash,
                                     !.hash = TransactionHash(HexOf(SignedTx(c).hash)),
                                     !.timeout = MintWaitTimeout, !.elapsed = 0,
                                     !.wait = d]]
    /\ UNCHANGED <<w3, middleware, caches, log, network, chain_id, nodeUp, abiExists, txCount, receipts, otherVars>>

\* token_id = 1  # This would be extracted from the event logs
MintTokenId(logs) == PLACEHOLDER_TOKEN_ID

MintReturnHashMutant(cl) == TransactionHash(HexOf(0))

\* return token_id, TransactionHash(tx_hash.hex())
MintReturnHash(cl) == TransactionHash(HexOf(cl.txh))

\* How mint_nft ends with the result r of its wait: the receipt's status is not
\* looked at.
MintEnd(cl, r) ==
    IF r.kind = "ok"
    THEN Returned([cl EXCEPT !.elapsed = 0],
                  [NoOut EXCEPT !.kind = "ok", !.token = MintTokenId(r.logs),
                                !.hash = MintReturnHash(cl)])
    ELSE Raise([cl EXCEPT !.elapsed = 0], MintError(r.cause))

\* A receipt query of mint_nft's wait completes.
MintWaitPoll(c) ==
    /\ calls[c].pc = "wait"
    /\ calls[c].op = "mint"
    /\ calls[c].wait = 0
    /\ \E rpcOk \in BOOLEAN, d \in RpcDelays :
          LET r == WaitIteration(calls[c], rpcOk) IN
          calls' = [calls EXCEPT ![c] =
                      IF r.kind = "pending"
                      THEN [@ EXCEPT !.wait = POLL_INTERVAL + d]
                      ELSE MintEnd(@, r)]
    /\ UNCHANGED <<w3, middleware, caches, log, network, chain_id, nodeUp, abiExists, txCount, pool, receipts, otherVars>>

\* send_transaction is called: the liveness probe is made.
StartSend(c, keyOk, gasGiven) ==
    /\ calls[c].pc = "idle"
    /\ \E d \in RpcDelays :
          calls' = [calls EXCEPT ![c] =
                      [@ EXCEPT !.op = "send", !.pc = "s_probe", !.keyOk = keyOk,
                                !.gasGiven = gasGiven, !.elapsed = 0, !.wait = d]]
    /\ UNCHANGED <<w3, middleware, caches, log, network, chain_id, nodeUp, abiExists, txCount, pool, receipts, otherVars>>

\* The probe answers; get_transaction_count is queried.
SendProbe(c) ==
    /\ calls[c].pc = "s_probe"
    /\ calls[c].wait = 0
    /\ \E d \in RpcDelays :
          calls' = [calls EXCEPT ![c] =
                      IF ~IsConnected THEN Raise(@, NotConnectedError)
                      ELSE [@ EXCEPT !.pc = "s_nonce", !.wait = d]]
    /\ UNCHANGED <<w3, middleware, caches, log, network, chain_id, nodeUp, abiExists, txCount, pool, receipts, otherVars>>

\* get_transaction_count answers the nonce.  With no gas price given gas_price is
\* queried; else the transaction is signed and send_raw_transaction issued.
SendNonce(c) ==
    /\ calls[c].pc = "s_nonce"
    /\ calls[c].wait = 0
    /\ \E ok \in RpcAnswers, d \in RpcDelays :
          calls' = [calls EXCEPT ![c] =
                      IF ~ok THEN Raise(@, SendError("nonce_read"))
                      ELSE IF ~@.gasGiven
                           THEN [@ EXCEPT !.pc = "s_gas", !.nonce = txCount, !.wait = d,
                                          !.nonceAge = @ + 1]
                      ELSE IF ~@.keyOk THEN Raise(@, SendError("key"))
                      ELSE [@ EXCEPT !.pc = "s_send", !.nonce = txCount, !.wait = d]]
    /\ UNCHANGED <<w3, middleware, caches, log, network, chain_id, nodeUp, abiExists, txCount, pool, receipts, otherVars>>

\* gas_price answers; the transaction is signed and send_raw_transaction issued.
SendGas(c) ==
    /\ calls[c].pc = "s_gas"
    /\ calls[c].wait = 0
    /\ \E a \in GasPriceAnswers, d \in RpcDelays :
          calls' = [calls EXCEPT ![c] =
                      IF a # "price" THEN Raise(@, SendError(a))
                      ELSE IF ~@.keyOk THEN Raise(@, SendError("key"))
                      ELSE [@ EXCEPT !.pc = "s_send", !.wait = d]]
    /\ UNCHANGED <<w3, middleware, caches, log, network, chain_id, nodeUp, abiExists, txCount, pool, receipts, otherVars>>

\* send_raw_transaction answers; the hash is returned.
SendSend(c) ==
    /\ calls[c].pc = "s_send"
    /\ calls[c].wait = 0
    /\ \E a \in BroadcastAnswers(SignedTx(c)) :
          /\ pool' = IF a = "accepted" THEN pool \cup {SignedTx(c)} ELSE pool
          /\ calls' = [calls EXCEPT ![c] =
                      IF a # "accepted"
                      THEN BroadcastRefused([@ EXCEPT !.answer = a, !.broadcasts = @ + 1],
                                            SendError(a))
                      ELSE Returned([@ EXCEPT !.answer = a, !.broadcasts = @ + 1,
                                              !.txh = SignedTx(c).hash],
                                    [NoOut EXCEPT !.kind = "ok",
                                                  !.hash = TransactionHash(HexOf(SignedTx(c).hash))])]
    /\ UNCHANGED <<w3, middleware, caches, log, network, chain_id, nodeUp, abiExists, txCount, receipts, otherVars>>

----------------------------------------------------------------------------
(* Concurrent requests that produce transactions for one sender *)

InitTx ==
    /\ InitClient
    /\ pool = {}

NextTx ==
    \/ Connect("localhost")
    \/ NodeFlip
    \/ Mine
    \/ Advance
    \/ \E c \in CallIds, keyOk \in BOOLEAN, r \in {0} : StartMint(c, keyOk, r)
    \/ \E c \in CallIds : MintFee(c)
    \/ \E c \in CallIds : MintNonce(c)
    \/ \E c \in CallIds : MintGas(c)
    \/ \E c \in CallIds : MintSend(c)
    \/ \E c \in CallIds : MintWaitPoll(c)
    \/ \E c \in CallIds, keyOk \in BOOLEAN, gasGiven \in BOOLEAN : StartSend(c, keyOk, gasGiven)
    \/ \E c \in CallIds : SendProbe(c)
    \/ \E c \in CallIds : SendNonce(c)
    \/ \E c \in CallIds : SendGas(c)
    \/ \E c \in CallIds : SendSend(c)

SpecTx == InitTx /\ [][NextTx]_vars

----------------------------------------------------------------------------
(* Reads of the chain, and the operations left as placeholders *)

\* An exception of the library that no handler of the client wraps.
LibraryError(kind, cause) == [NoOut EXCEPT !.kind = kind, !.cause = cause]

\* get_balance is called: the liveness probe is made.
StartGetBalance(c) ==
    /\ calls[c].pc = "idle"
    /\ \E d \in RpcDelays :
          calls' = [calls EXCEPT ![c] = [@ EXCEPT !.op = "get_balance", !.pc = "b_probe", !.wait = d]]
    /\ UNCHANGED <<w3, middleware, caches, log, network, chain_id, nodeUp, abiExists, txCount, pool, receipts, otherVars>>

\* The probe answers; eth.get_balance is queried.
GetBalanceProbe(c) ==
    /\ calls[c].pc = "b_probe"
    /\ calls[c].wait = 0
    /\ \E d \in RpcDelays :
          calls' = [calls EXCEPT ![c] =
                      IF ~IsConnected THEN Raise(@, NotConnectedError)
                      ELSE [@ EXCEPT !.pc = "b_query", !.wait = d]]
    /\ UNCHANGED <<w3, middleware, caches, log, network, chain_id, nodeUp, abiExists, txCount, pool, receipts, otherVars>>

\* eth.get_balance answers; the balance is converted and returned.
GetBalanceDone(c) ==
    /\ calls[c].pc = "b_query"
    /\ calls[c].wait = 0
    /\ \E ok \in RpcAnswers :
          calls' = [calls EXCEPT ![c] =
                      IF ~ok THEN Raise(@, LibraryError("ConnectionError", "rpc"))
                      ELSE Returned(@, [NoOut EXCEPT !.kind = "ok"])]
    /\ UNCHANGED <<w3, middleware, caches, log, network, chain_id, nodeUp, abiExists, txCount, pool, receipts, otherVars>>

\* GET /wallet/{address}/balance: the application keeps a client only when the
\* connect of its startup succeeded, and without one the request is refused; the
\* WalletAddress is made from the text of the path, which raises ValueError for
\* a malformed one; else get_balance is called, and what it returns or raises
\* is answered through the endpoint's handlers.
ApiBalance(c, addressOk) ==
    /\ calls[c].pc = "idle"
    /\ \E d \in RpcDelays :
          calls' = [calls EXCEPT ![c] =
                      LET cl == [@ EXCEPT !.op = "get_balance", !.api = TRUE] IN
                      IF network = None THEN Raise(cl, LibraryError("HTTPException", "no_client"))
                      ELSE IF ~addressOk THEN Raise(cl, LibraryError("ValueError", "address"))
                      ELSE [cl EXCEPT !.pc = "b_probe", !.wait = d]]
    /\ UNCHANGED <<w3, middleware, caches, log, network, chain_id, nodeUp, abiExists, txCount, pool, receipts, otherVars>>

\* estimate_gas is called: the liveness probe is made.
StartEstimateGas(c) ==
    /\ calls[c].pc = "idle"
    /\ \E d \in RpcDelays :
          calls' = [calls EXCEPT ![c] = [@ EXCEPT !.op = "estimate_gas", !.pc = "e_probe", !.wait = d]]
    /\ UNCHANGED <<w3, middleware, caches, log, network, chain_id, nodeUp, abiExists, txCount, pool, receipts, otherVars>>

\* The probe answers; eth.estimate_gas is queried.
EstimateGasProbe(c) ==
    /\ calls[c].pc = "e_probe"
    /\ calls[c].wait = 0
    /\ \E d \in RpcDelays :
          calls' = [calls EXCEPT ![c] =
                      IF ~IsConnected THEN Raise(@, NotConnectedError)
                      ELSE [@ EXCEPT !.pc = "e_estimate", !.wait = d]]
    /\ UNCHANGED <<w3, middleware, caches, log, network, chain_id, nodeUp, abiExists, txCount, pool, receipts, otherVars>>

\* What the node may answer to eth.estimate_gas and to gas_price.
GasLimits == {INTRINSIC_GAS * k : k \in 1..MaxGasMultiple}
GasPrices == 1..MaxGasPrice

\* The simulation reverted: the library raises ContractLogicError with the
\* revert reason, and estimate_gas has no handler around the call.
SimulationReverted(cl) == Raise(cl, LibraryError("ContractLogicError", "revert"))

\* eth.estimate_gas answers, or the simulation reverts; gas_price is queried.
EstimateGasSimulated(c) ==
    /\ calls[c].pc = "e_estimate"
    /\ calls[c].wait = 0
    /\ \E ok \in RpcAnswers, reverts \in BOOLEAN, g \in GasLimits, d \in RpcDelays :
          calls' = [calls EXCEPT ![c] =
                      IF ~ok THEN Raise(@, LibraryError("ConnectionError", "rpc"))
                      ELSE IF reverts THEN SimulationReverted([@ EXCEPT !.reverted = TRUE])
                      ELSE [@ EXCEPT !.pc = "e_price", !.nodeGas = g, !.wait = d]]
    /\ UNCHANGED <<w3, middleware, caches, log, network, chain_id, nodeUp, abiExists, txCount, pool, receipts, otherVars>>

EstimatedCostMutant(gas_limit, gas_price) == wei_to_ether(Digits(gas_limit))

\* estimated_cost = await self.wei_to_ether(gas_limit * gas_price)
EstimatedCost(gas_limit, gas_price) == wei_to_ether(Digits(gas_limit * gas_price))

\* GasEstimate(gas_limit=gas_limit, gas_price=gas_price, estimated_cost=estimated_cost)
GasEstimate(gas_limit, gas_price) ==
    [NoOut EXCEPT !.kind = "ok", !.gas_limit = gas_limit, !.gas_price = gas_price,
                  !.estimated_cost = EstimatedCost(gas_limit, gas_price)]

\* GasEstimate.total_cost_wei
total_cost_wei(e) == e.gas_limit * e.gas_price

\* gas_price answers; the GasEstimate is returned.
EstimateGasDone(c) ==
    /\ calls[c].pc = "e_price"
    /\ calls[c].wait = 0
    /\ \E a \in GasPriceAnswers, p \in GasPrices :
          calls' = [calls EXCEPT ![c] =
                      IF a = "rpc" THEN Raise(@, LibraryError("ConnectionError", "rpc"))
                      ELSE IF a = "type_error" THEN Raise(@, LibraryError("TypeError", a))
                      ELSE Returned([@ EXCEPT !.nodePrice = p], GasEstimate(@.nodeGas, p))]
    /\ UNCHANGED <<w3, middleware, caches, log, network, chain_id, nodeUp, abiExists, txCount, pool, receipts, otherVars>>

\* get_token_balance is called: the ERC20 ABI is loaded, the contract object is
\* made from self.w3 and balanceOf is queried.  No liveness probe is made.
StartGetTokenBalance(c) ==
    /\ calls[c].pc = "idle"
    /\ \E d \in RpcDelays :
          calls' = [calls EXCEPT ![c] =
                      LET cl == [@ EXCEPT !.op = "get_token_balance"] IN
                      IF ~abiExists THEN Raise(cl, LibraryError("Web3ClientError", "abi"))
                      ELSE IF w3 = None THEN Raise(cl, LibraryError("AttributeError", "no_w3"))
                      ELSE [cl EXCEPT !.pc = "k_balance", !.wait = d]]
    /\ UNCHANGED <<w3, middleware, caches, log, network, chain_id, nodeUp, abiExists, txCount, pool, receipts, otherVars>>

\* balanceOf answers; decimals is queried.
GetTokenBalanceOf(c) ==
    /\ calls[c].pc = "k_balance"
    /\ calls[c].wait = 0
    /\ \E ok \in RpcAnswers, d \in RpcDelays :
          calls' = [calls EXCEPT ![c] =
                      IF ~ok THEN Raise(@, LibraryError("ConnectionError", "rpc"))
                      ELSE [@ EXCEPT !.pc = "k_decimals", !.wait = d]]
    /\ UNCHANGED <<w3, middleware, caches, log, network, chain_id, nodeUp, abiExists, txCount, pool, receipts, otherVars>>

\* decimals answers; the balance is returned.
GetTokenBalanceDone(c) ==
    /\ calls[c].pc = "k_decimals"
    /\ calls[c].wait = 0
    /\ \E ok \in RpcAnswers :
          calls' = [calls EXCEPT ![c] =
                      IF ~ok THEN Raise(@, LibraryError("ConnectionError", "rpc"))
                      ELSE Returned(@, [NoOut EXCEPT !.kind = "ok"])]
    /\ UNCHANGED <<w3, middleware, caches, log, network, chain_id, nodeUp, abiExists, txCount, pool, receipts, otherVars>>

\* The contract and marketplace operations whose bodies return placeholders.
PlaceholderOps ==
    {"verify_nft", "get_nft_owner", "get_nft_metadata", "get_royalty_info",
     "create_listing", "buy_nft", "place_bid", "finalize_auction",
     "get_listing_info", "get_active_listings", "get_nft_events",
     "get_marketplace_events", "subscribe_to_events", "unsubscribe_from_events"}

\* A placeholder operation is called: it returns its fixed value at once.
Placeholder(c, op) ==
    /\ calls[c].pc = "idle"
    /\ calls' = [calls EXCEPT ![c] = Returned([@ EXCEPT !.op = op], [NoOut EXCEPT !.kind = "ok"])]
    /\ UNCHANGED <<w3, middleware, caches, log, network, chain_id, nodeUp, abiExists, txCount, pool, receipts, otherVars>>

----------------------------------------------------------------------------
(* The whole port, one operation at a time, on an instance that is connected *)
(* or not.                                                                   *)

OpsCallers == {1}

\* One network with the main chain's block headers, one with proof-of-authority
\* headers.
ConnectChoices == {"mainnet", "localhost"}

NextOps ==
    \/ \E net \in ConnectChoices : Connect(net)
    \/ NodeFlip
    \/ Mine
    \/ Advance
    \/ \E c \in OpsCallers, h \in TxIds, t \in 0..MaxTimeout : StartWait(c, h, t)
    \/ \E c \in OpsCallers, h \in TxIds : StartReceipt(c, h)
    \/ \E c \in OpsCallers : WaitPoll(c)
    \/ \E c \in OpsCallers : ReceiptDone(c)
    \/ \E c \in OpsCallers, keyOk \in BOOLEAN, r \in {0} : StartMint(c, keyOk, r)
    \/ \E c \in OpsCallers : MintFee(c)
    \/ \E c \in OpsCallers : MintNonce(c)
    \/ \E c \in OpsCallers : MintGas(c)
    \/ \E c \in OpsCallers : MintSend(c)
    \/ \E c \in OpsCallers : MintWaitPoll(c)
    \/ \E c \in OpsCallers, keyOk \in BOOLEAN, gasGiven \in BOOLEAN : StartSend(c, keyOk, gasGiven)
    \/ \E c \in OpsCallers : SendProbe(c)
    \/ \E c \in OpsCallers : SendNonce(c)
    \/ \E c \in OpsCallers : SendGas(c)
    \/ \E c \in OpsCallers : SendSend(c)
    \/ \E c \in OpsCallers : StartGetBalance(c)
    \/ \E c \in OpsCallers, addressOk \in BOOLEAN : ApiBalance(c, addressOk)
    \/ \E c \in OpsCallers : GetBalanceProbe(c)
    \/ \E c \in OpsCallers : GetBalanceDone(c)
    \/ \E c \in OpsCallers : StartEstimateGas(c)
    \/ \E c \in OpsCallers : EstimateGasProbe(c)
    \/ \E c \in OpsCallers : EstimateGasSimulated(c)
    \/ \E c \in OpsCallers : EstimateGasDone(c)
    \/ \E c \in OpsCallers : StartGetTokenBalance(c)
    \/ \E c \in OpsCallers : GetTokenBalanceOf(c)
    \/ \E c \in OpsCallers : GetTokenBalanceDone(c)
    \/ \E c \in OpsCallers, op \in PlaceholderOps : Placeholder(c, op)

SpecOps == InitWait /\ [][NextOps]_vars

----------------------------------------------------------------------------
(* Connecting to each network of network_configs, and reading through the    *)
(* connection.                                                               *)

NextConnect ==
    \/ \E net \in Networks : Connect(net)
    \/ NodeFlip
    \/ Advance
    \/ \E c \in OpsCallers : StartGetBalance(c)
    \/ \E c \in OpsCallers : GetBalanceProbe(c)
    \/ \E c \in OpsCallers : GetBalanceDone(c)

SpecConnect == InitWait /\ [][NextConnect]_vars

----------------------------------------------------------------------------
(* mint_nft with every metadata, on an instance that is connected or not.    *)

NextMint ==
    \/ \E net \in ConnectChoices : Connect(net)
    \/ NodeFlip
    \/ Mine
    \/ Advance
    \/ \E c \in OpsCallers, keyOk \in BOOLEAN, r \in RoyaltyChoices : StartMint(c, keyOk, r)
    \/ \E c \in OpsCallers : MintFee(c)
    \/ \E c \in OpsCallers : MintNonce(c)
    \/ \E c \in OpsCallers : MintGas(c)
    \/ \E c \in OpsCallers : MintSend(c)
    \/ \E c \in OpsCallers : MintWaitPoll(c)

SpecMint == InitWait /\ [][NextMint]_vars

----------------------------------------------------------------------------
(* The conversions between wei and ether, on their own *)

clientVars == <<w3, middleware, caches, log, network, chain_id, nodeUp, abiExists, txCount, pool, receipts, calls>>

\* A client nobody calls.
InitIdle ==
    /\ w3 = None
    /\ middleware = FreshOnion
    /\ contracts = <<>>
    /\ subscriptions = <<>>
    /\ log = {}
    /\ network = None
    /\ chain_id = None
    /\ nodeUp = FALSE
    /\ abiExists = FALSE
    /\ txCount = 0
    /\ pool = {}
    /\ receipts = [h \in TxIds |-> NoReceipt]
    /\ calls = [c \in CallIds |-> IdleCall]

\* The int of n digits with the given first, middle and last digits.
WeiOf(lead, mid, last, n) ==
    IF n = 1 THEN <<last>>
    ELSE <<lead>> \o [i \in 1..(n - 2) |-> mid] \o <<last>>

\* The amounts converted: zero, small ones, and ones around the precision of
\* the decimal context, with low digits that round up, down and to even.
WeiInputs ==
    {WeiOf(lead, mid, last, n) :
        lead \in {1, 9}, mid \in {0, 5, 9}, last \in {0, 1, 5, 9}, n \in 1..MaxWeiDigits}

InitCodec ==
    /\ InitIdle
    /\ built = NoBuilt
    /\ asset = NoAsset
    /\ resolution = NoResolution
    /\ manager = NoManager
    /\ retry = NoRetry
    /\ amount \in {[NoAmount EXCEPT !.pc = "wei", !.wei = w] : w \in WeiInputs}

\* wei_to_ether(wei_amount) is called.
ToEther ==
    /\ amount.pc = "wei"
    /\ amount' = [amount EXCEPT !.pc = "ether", !.ether = wei_to_ether(amount.wei)]
    /\ UNCHANGED <<clientVars, built, domainVars>>

\* ether_to_wei is called with the Decimal wei_to_ether returned.
ToWei ==
    /\ amount.pc = "ether"
    /\ amount' = [amount EXCEPT !.pc = "back", !.back = ether_to_wei(amount.ether)]
    /\ UNCHANGED <<clientVars, built, domainVars>>

NextCodec ==
    \/ ToEther
    \/ ToWei

SpecCodec == InitCodec /\ [][NextCodec]_vars

----------------------------------------------------------------------------
(* The value objects, on their own *)

Prefixes == {<<"0", "x">>, <<"0", "X">>, <<"1", "x">>}

BodyChars == {"a", "A", "1", "g"}

\* The str of a prefix and n more characters: one, then n - 1 times another.
Text(pre, head, fill, n) == pre \o <<head>> \o [i \in 1..(n - 1) |-> fill]

BodyLengths ==
    {ADDRESS_LENGTH - 2 + k : k \in -LenSlack..LenSlack}
    \cup {HASH_LENGTH - 2 + k : k \in -LenSlack..LenSlack}

Texts ==
    {Text(pre, head, fill, n) :
        pre \in Prefixes, head \in BodyChars, fill \in BodyChars, n \in BodyLengths}

InitValues ==
    /\ InitIdle
    /\ amount = NoAmount
    /\ asset = NoAsset
    /\ resolution = NoResolution
    /\ manager = NoManager
    /\ retry = NoRetry
    /\ built \in {[NoBuilt EXCEPT !.pc = "given", !.cls = cls, !.text = t] :
                      cls \in ValueClasses, t \in Texts}

\* cls(text)
Build ==
    /\ built.pc = "given"
    /\ built' = [built EXCEPT !.pc = "built", !.first = Construct(built.cls, built.text)]
    /\ UNCHANGED <<clientVars, amount, domainVars>>

\* cls(t) for a str t that differs from text in letter case at most.
BuildOther(t) ==
    /\ built.pc = "built"
    /\ Lower(t) = Lower(built.text)
    /\ built' = [built EXCEPT !.pc = "both", !.other = t,
                               !.second = Construct(built.cls, t)]
    /\ UNCHANGED <<clientVars, amount, domainVars>>

NextValues ==
    \/ Build
    \/ \E t \in Texts : BuildOther(t)

SpecValues == InitValues /\ [][NextValues]_vars

----------------------------------------------------------------------------
(* The Asset aggregate (backend/app/core/domain/asset.py), its operations    *)
(* called in any order by one caller, and the consumer of its events.        *)

\* An address text as the asset looks at it: whose it is, its prefix, its
\* length, and whether it has upper-case letters.
AssetAddress(who, mixed, len) ==
    [who |-> who, prefix |-> "0x", len |-> len, mixed |-> mixed]

ASSET_ADDRESS_LENGTH == 42

\* _validate_ethereum_address: refuses a text without the 0x prefix or not of
\* 42 characters, and returns the others in lower case.  Refused is the
\* exception.
Refused == [who |-> "-", prefix |-> "-", len |-> 0, mixed |-> FALSE]

ValidateEthereumAddress(address) ==
    IF address.prefix # "0x" \/ address.len # ASSET_ADDRESS_LENGTH
    THEN Refused
    ELSE [address EXCEPT !.mixed = FALSE]

\* The address the asset is made with: the creator's, written in lower case.
CreatorAddress == AssetAddress("creator", FALSE, ASSET_ADDRESS_LENGTH)

\* The recipients of the RoyaltyInfo objects given to update_royalty_info:
\* RoyaltyInfo keeps the text as it is, so these are the creator's address in
\* lower case and with capitals, and somebody else's.
Recipients ==
    {AssetAddress("creator", mixed, ASSET_ADDRESS_LENGTH) : mixed \in BOOLEAN}
        \cup {AssetAddress("other", FALSE, ASSET_ADDRESS_LENGTH)}

\* The contract addresses given to complete_minting: one well-formed, one a
\* character short.
ContractAddresses ==
    {AssetAddress("contract", TRUE, len) : len \in {ASSET_ADDRESS_LENGTH - 1, ASSET_ADDRESS_LENGTH}}

\* Optional[...]: None is the empty sequence, a value the sequence of it.
Nothing == <<>>

\* Asset.__init__: a draft asset, pending verification, without events.  The
\* fields added, returned and last are not the asset's: they number the
\* events, keep what the drains returned, and say how the last call ended.
NewAsset(creator) ==
    [creator_address |-> ValidateEthereumAddress(creator),
     metadata |-> "metadata1",
     royalty_recipient |-> creator,
     status |-> "DRAFT",
     verification_status |-> "PENDING",
     token_id |-> Nothing,
     contract_address |-> Nothing,
     verification_attempts |-> 0,
     domain_events |-> <<>>,
     added |-> 0,
     returned |-> <<>>,
     last |-> [op |-> "-", raised |-> FALSE, events |-> <<>>]]

\* is_minted
IsMinted(a) == a.token_id # Nothing /\ a.contract_address # Nothing

\* can_be_minted
CanBeMinted(a) == a.status = "DRAFT" /\ a.verification_status = "VERIFIED"

\* The event is appended twice.
AddDomainEventMutant(a, event_type) ==
    [a EXCEPT !.domain_events = @ \o << [id |-> a.added + 1, event_type |-> event_type],
                                        [id |-> a.added + 2, event_type |-> event_type] >>,
              !.added = @ + 2]

\* _add_domain_event: one record is appended.
AddDomainEvent(a, event_type) ==
    [a EXCEPT !.domain_events = Append(@, [id |-> a.added + 1, event_type |-> event_type]),
              !.added = @ + 1]

\* The operation op raises, leaving the asset as a.
AssetRaises(a, op) == [a EXCEPT !.last = [op |-> op, raised |-> TRUE, events |-> <<>>]]

\* The operation op returns, leaving the asset as a.
AssetReturns(a, op) == [a EXCEPT !.last = [op |-> op, raised |-> FALSE, events |-> <<>>]]

UpdateMetadata(new_metadata) ==
    /\ asset.status # "-"
    /\ asset.added < MaxEvents
    /\ asset' = IF IsMinted(asset)
                THEN AssetRaises(asset, "update_metadata")
                ELSE AssetReturns(AddDomainEvent([asset EXCEPT !.metadata = new_metadata],
                                                 "asset_metadata_updated"),
                                  "update_metadata")
    /\ UNCHANGED <<clientVars, amount, built, resolution, manager, retry>>

UpdateRoyaltyInfo(recipient) ==
    /\ asset.status # "-"
    /\ asset.added < MaxEvents
    /\ asset' = IF recipient # asset.creator_address
                THEN AssetRaises(asset, "update_royalty_info")
                ELSE AssetReturns(AddDomainEvent([asset EXCEPT !.royalty_recipient = recipient],
                                                 "asset_royalty_updated"),
                                  "update_royalty_info")
    /\ UNCHANGED <<clientVars, amount, built, resolution, manager, retry>>

StartVerification ==
    /\ asset.status # "-"
    /\ asset.added < MaxEvents
    /\ asset' = IF asset.verification_status # "PENDING"
                THEN AssetRaises(asset, "start_verification")
                ELSE AssetReturns(AddDomainEvent([asset EXCEPT !.verification_attempts = @ + 1],
                                                 "asset_verification_started"),
                                  "start_verification")
    /\ UNCHANGED <<clientVars, amount, built, resolution, manager, retry>>

Verify ==
    /\ asset.status # "-"
    /\ asset.added < MaxEvents
    /\ asset' = IF asset.verification_status = "VERIFIED"
                THEN AssetRaises(asset, "verify")
                ELSE AssetReturns(AddDomainEvent([asset EXCEPT !.verification_status = "VERIFIED"],
                                                 "asset_verified"),
                                  "verify")
    /\ UNCHANGED <<clientVars, amount, built, resolution, manager, retry>>

\* reject_verification has no condition.
RejectVerification ==
    /\ asset.status # "-"
    /\ asset.added < MaxEvents
    /\ asset' = AssetReturns(AddDomainEvent([asset EXCEPT !.verification_status = "REJECTED"],
                                            "asset_verification_rejected"),
                             "reject_verification")
    /\ UNCHANGED <<clientVars, amount, built, resolution, manager, retry>>

StartMinting ==
    /\ asset.status # "-"
    /\ asset.added < MaxEvents
    /\ asset' = IF ~CanBeMinted(asset)
                THEN AssetRaises(asset, "start_minting")
                ELSE AssetReturns(AddDomainEvent([asset EXCEPT !.status = "MINTING"],
                                                 "asset_minting_started"),
                                  "start_minting")
    /\ UNCHANGED <<clientVars, amount, built, resolution, manager, retry>>

\* complete_minting stores the token id before it validates the contract
\* address: when the address is refused the token id stays.
CompleteMinting(token_id, contract_address) ==
    /\ asset.status # "-"
    /\ asset.added < MaxEvents
    /\ asset' = IF asset.status # "MINTING"
                THEN AssetRaises(asset, "complete_minting")
                ELSE IF ValidateEthereumAddress(contract_address) = Refused
                THEN AssetRaises([asset EXCEPT !.token_id = <<token_id>>], "complete_minting")
                ELSE AssetReturns(
                       AddDomainEvent(
                         [asset EXCEPT !.token_id = <<token_id>>,
                                       !.contract_address = <<ValidateEthereumAddress(contract_address)>>,
                                       !.status = "MINTED"],
                         "asset_minted"),
                       "complete_minting")
    /\ UNCHANGED <<clientVars, amount, built, resolution, manager, retry>>

\* list_for_sale asks only that the asset is minted.
ListForSale ==
    /\ asset.status # "-"
    /\ asset.added < MaxEvents
    /\ asset' = IF ~IsMinted(asset)
                THEN AssetRaises(asset, "list_for_sale")
                ELSE AssetReturns(AddDomainEvent([asset EXCEPT !.status = "LISTED"], "asset_listed"),
                                  "list_for_sale")
    /\ UNCHANGED <<clientVars, amount, built, resolution, manager, retry>>

MarkAsSold ==
    /\ asset.status # "-"
    /\ asset.added < MaxEvents
    /\ asset' = IF asset.status # "LISTED"
                THEN AssetRaises(asset, "mark_as_sold")
                ELSE AssetReturns(AddDomainEvent([asset EXCEPT !.status = "SOLD"], "asset_sold"),
                                  "mark_as_sold")
    /\ UNCHANGED <<clientVars, amount, built, resolution, manager, retry>>

\* The list is returned and kept as it is.
DrainedMutant(a) == a.domain_events

\* What get_domain_events leaves in the list: nothing, after clear().
Drained(a) == <<>>

\* get_domain_events: a copy of the list is returned and the list is cleared.
GetDomainEvents ==
    /\ asset.status # "-"
    /\ asset' = [asset EXCEPT
                   !.domain_events = Drained(asset),
                   !.returned = @ \o asset.domain_events,
                   !.last = [op |-> "get_domain_events", raised |-> FALSE,
                             events |-> asset.domain_events]]
    /\ UNCHANGED <<clientVars, amount, built, resolution, manager, retry>>

InitAsset ==
    /\ InitIdle
    /\ amount = NoAmount
    /\ built = NoBuilt
    /\ resolution = NoResolution
    /\ manager = NoManager
    /\ retry = NoRetry
    /\ asset = NewAsset(CreatorAddress)

NextAsset ==
    \/ UpdateMetadata("metadata2")
    \/ \E r \in Recipients : UpdateRoyaltyInfo(r)
    \/ StartVerification
    \/ Verify
    \/ RejectVerification
    \/ StartMinting
    \/ \E ca \in ContractAddresses : CompleteMinting(1, ca)
    \/ ListForSale
    \/ MarkAsSold
    \/ GetDomainEvents

SpecAsset == InitAsset /\ [][NextAsset]_vars

\* The same caller, with more than one token id to complete the minting with.
NextAssetTokens ==
    \/ UpdateMetadata("metadata2")
    \/ \E r \in Recipients : UpdateRoyaltyInfo(r)
    \/ StartVerification
    \/ Verify
    \/ RejectVerification
    \/ StartMinting
    \/ \E t \in {1, 2}, ca \in ContractAddresses : CompleteMinting(t, ca)
    \/ ListForSale
    \/ MarkAsSold
    \/ GetDomainEvents

SpecAssetTokens == InitAsset /\ [][NextAssetTokens]_vars

----------------------------------------------------------------------------
(* The load order of the plugins (backend/app/core/plugins/plugin_manager.py, *)
(* PluginManager._resolve_dependencies): one step is one pass of its while    *)
(* loop.                                                                      *)

\* The registry holds one class per name: the plugins are their names, 1..n in
\* the order they were registered.  0 is a name nobody registered.
UNREGISTERED == 0

\* The dependency lists of the plugins of a registry of n plugins: registered
\* names and the unregistered one.
DependencyLists(n) ==
    [1..n -> {d \in SUBSET ({UNREGISTERED} \cup 1..n) : Cardinality(d) <= MaxDeps}]

\* The elements of a list.
Elements(list) == {list[i] : i \in DOMAIN list}

\* all(dep in [names of loaded] for dep in metadata.dependencies)
DependenciesMet(dependencies, loaded) ==
    \A dep \in dependencies : dep \in Elements(loaded)

\* for plugin_class in remaining: a plugin whose dependencies are all loaded,
\* by an earlier pass or earlier in this one, is appended to loaded and to
\* loaded_this_round.
RECURSIVE ForRemaining(_, _, _, _, _)
ForRemaining(deps, remaining, i, loaded, loaded_this_round) ==
    IF i > Len(remaining)
    THEN [loaded |-> loaded, loaded_this_round |-> loaded_this_round]
    ELSE IF DependenciesMet(deps[remaining[i]], loaded)
    THEN ForRemaining(deps, remaining, i + 1,
                      Append(loaded, remaining[i]), Append(loaded_this_round, remaining[i]))
    ELSE ForRemaining(deps, remaining, i + 1, loaded, loaded_this_round)

\* list.remove(x): the list without the first x.
RECURSIVE Remove(_, _)
Remove(list, x) ==
    IF list = <<>> THEN <<>>
    ELSE IF Head(list) = x THEN Tail(list)
    ELSE <<Head(list)>> \o Remove(Tail(list), x)

\* for plugin_class in loaded_this_round: remaining.remove(plugin_class)
RECURSIVE RemoveAll(_, _)
RemoveAll(list, gone) ==
    IF gone = <<>> THEN list
    ELSE RemoveAll(Remove(list, Head(gone)), Tail(gone))

\* A pass that loaded nothing returns what is loaded so far.
NoProgressMutant(r) == [r EXCEPT !.pc = "returned"]

\* A pass that loaded nothing: raise ValueError("Cannot resolve dependencies
\* for plugins: ...").
NoProgress(r) == [r EXCEPT !.pc = "raised", !.error = "ValueError"]

\* _resolve_dependencies is entered: nothing is loaded, and remaining is
\* list(self._registry._plugins.values()).
StartResolution(n, deps) ==
    [pc |-> "while", n |-> n, deps |-> deps, loaded |-> <<>>,
     remaining |-> [i \in 1..n |-> i], passes |-> 0, error |-> "-"]

\* while remaining: one pass of the loop, or the return when nothing remains.
ResolvePass ==
    /\ resolution.pc = "while"
    /\ resolution.remaining # <<>>
    /\ LET pass == ForRemaining(resolution.deps, resolution.remaining, 1,
                                resolution.loaded, <<>>)
           r == [resolution EXCEPT !.passes = @ + 1]
       IN resolution' =
            IF pass.loaded_this_round = <<>>
            THEN NoProgress(r)
            ELSE [r EXCEPT !.loaded = pass.loaded,
                           !.remaining = RemoveAll(@, pass.loaded_this_round)]
    /\ UNCHANGED <<clientVars, amount, built, asset, manager, retry>>

\* return loaded
ResolveReturn ==
    /\ resolution.pc = "while"
    /\ resolution.remaining = <<>>
    /\ resolution' = [resolution EXCEPT !.pc = "returned"]
    /\ UNCHANGED <<clientVars, amount, built, asset, manager, retry>>

InitPlugins ==
    /\ InitIdle
    /\ amount = NoAmount
    /\ built = NoBuilt
    /\ asset = NoAsset
    /\ manager = NoManager
    /\ retry = NoRetry
    /\ \E n \in 0..NumPlugins :
          resolution \in {StartResolution(n, deps) : deps \in DependencyLists(n)}

NextPlugins ==
    \/ ResolvePass
    \/ ResolveReturn

\* The loop runs on: nothing in it waits for anything.
SpecPlugins == InitPlugins /\ [][NextPlugins]_vars /\ WF_vars(NextPlugins)

-----------------------------------------------------------------------------
(* The plugin manager's life (PluginManager._load_plugins, broadcast_event,  *)
(* shutdown): one step is one iteration of a loop, which awaits one plugin.   *)

\* for plugin_class in plugins_to_load: the plugin is instantiated; an enabled
\* one is initialized, made active and subscribed to its handled event types;
\* an exception is logged and the loop goes on.  The ValueError of
\* _resolve_dependencies is not caught.
LoadPlugins ==
    /\ manager.pc = "load"
    /\ resolution.pc \in {"returned", "raised"}
    /\ IF resolution.pc = "raised"
       THEN manager' = [manager EXCEPT !.pc = "failed", !.propagated = TRUE]
       ELSE IF manager.i > Len(resolution.loaded)
       THEN manager' = [manager EXCEPT !.pc = "ready"]
       ELSE \E enabled \in BOOLEAN, initialized \in BOOLEAN,
               handled_event_types \in SUBSET EventTypes :
              LET plugin == resolution.loaded[manager.i] IN
              manager' =
                IF ~enabled THEN [manager EXCEPT !.i = @ + 1]
                ELSE IF ~initialized
                THEN [manager EXCEPT !.i = @ + 1, !.logged = @ + 1]
                ELSE [manager EXCEPT
                        !.i = @ + 1,
                        !.active = Append(@, plugin),
                        !.subs = [t \in EventTypes |->
                                    IF t \in handled_event_types
                                    THEN Append(@[t], plugin) ELSE @[t]]]
    /\ UNCHANGED <<clientVars, amount, built, asset, resolution, retry>>

\* The except clause of a loop lets the exception leave the operation.
LoggedErrorMutant(m) == [m EXCEPT !.pc = "ready", !.propagated = TRUE]

\* except Exception as e: self._context.logger.error(...), and the loop goes on.
LoggedError(m) == [m EXCEPT !.logged = @ + 1]

\* broadcast_event(event) is called.
BroadcastEvent(event_type) ==
    /\ manager.pc = "ready"
    /\ manager' = [manager EXCEPT !.pc = "broadcast", !.i = 1, !.event = event_type,
                                   !.called = <<>>, !.logged = 0]
    /\ UNCHANGED <<clientVars, amount, built, asset, resolution, retry>>

\* for plugin in self._event_subscriptions[event_type]: await
\* plugin.on_event(event), which returns or raises; after the last one the
\* operation returns.
OnEvent ==
    /\ manager.pc = "broadcast"
    /\ IF manager.i > Len(manager.subs[manager.event])
       THEN manager' = [manager EXCEPT !.pc = "ready"]
       ELSE \E raises \in BOOLEAN :
              LET m == [manager EXCEPT
                          !.i = @ + 1,
                          !.called = Append(@, manager.subs[manager.event][manager.i])]
              IN manager' = IF raises THEN LoggedError(m) ELSE m
    /\ UNCHANGED <<clientVars, amount, built, asset, resolution, retry>>

\* shutdown() is called.
Shutdown ==
    /\ manager.pc = "ready"
    /\ manager' = [manager EXCEPT !.pc = "shutdown", !.i = 1, !.event = "-",
                                   !.called = <<>>, !.logged = 0]
    /\ UNCHANGED <<clientVars, amount, built, asset, resolution, retry>>

\* for plugin in self._active_plugins.values(): await plugin.shutdown(), which
\* returns or raises; after the last one both dictionaries are cleared.
PluginShutdown ==
    /\ manager.pc = "shutdown"
    /\ IF manager.i > Len(manager.active)
       THEN manager' = [manager EXCEPT !.pc = "ready", !.i = 0, !.active = <<>>,
                                       !.subs = [t \in EventTypes |-> <<>>]]
       ELSE \E raises \in BOOLEAN :
              LET m == [manager EXCEPT
                          !.i = @ + 1,
                          !.called = Append(@, manager.active[manager.i])]
              IN manager' = IF raises THEN LoggedError(m) ELSE m
    /\ UNCHANGED <<clientVars, amount, built, asset, resolution, retry>>

\* initialize has entered _load_plugins, and that _resolve_dependencies, over
\* any registry.
InitLoad ==
    /\ InitIdle
    /\ amount = NoAmount
    /\ built = NoBuilt
    /\ asset = NoAsset
    /\ retry = NoRetry
    /\ manager = [NoManager EXCEPT !.pc = "load", !.i = 1]
    /\ \E n \in 0..NumPlugins :
          resolution \in {StartResolution(n, deps) : deps \in DependencyLists(n)}

NextLoad ==
    \/ ResolvePass
    \/ ResolveReturn
    \/ LoadPlugins

SpecLoad == InitLoad /\ [][NextLoad]_vars

\* The same over a registry of plugins without dependencies; the manager then
\* broadcasts events and is shut down.
InitEvents ==
    /\ InitIdle
    /\ amount = NoAmount
    /\ built = NoBuilt
    /\ asset = NoAsset
    /\ retry = NoRetry
    /\ manager = [NoManager EXCEPT !.pc = "load", !.i = 1]
    /\ \E n \in 0..NumPlugins : resolution = StartResolution(n, [i \in 1..n |-> {}])

NextEvents ==
    \/ ResolvePass
    \/ ResolveReturn
    \/ LoadPlugins
    \/ \E t \in EventTypes : BroadcastEvent(t)
    \/ OnEvent
    \/ Shutdown
    \/ PluginShutdown

SpecEvents == InitEvents /\ [][NextEvents]_vars

-----------------------------------------------------------------------------
(* Web3ClientImpl._retry_on_failure, on its own: one step is one await.       *)

\* The exceptions func raises.
RetryErrors == {"TimeoutError", "ConnectionError"}

\* The delay is doubled for each attempt that failed.
WaitTimeMutant(delay, attempt) == delay * 2 * attempt

\* wait_time = delay * (2 ** attempt)
WaitTime(delay, attempt) == delay * (2 ^ attempt)

\* _retry_on_failure(func, max_retries, delay) is entered.  `called` counts the
\* calls of func, `errors` lists what they raised, `slept` lists the sleeps.
InitRetry ==
    /\ InitIdle
    /\ amount = NoAmount
    /\ built = NoBuilt
    /\ asset = NoAsset
    /\ resolution = NoResolution
    /\ manager = NoManager
    /\ \E max_retries \in 0..MaxRetries, delay \in 0..MaxDelay :
          retry = [pc |-> "call", max_retries |-> max_retries, delay |-> delay,
                   attempt |-> 0, called |-> 0, errors |-> <<>>, slept |-> <<>>,
                   out |-> Nothing]

\* for attempt in range(max_retries): return await func(), which returns its
\* result or raises; the exception of the last attempt is raised again, any
\* other is logged and followed by a sleep.  With no attempt left the function
\* returns None.
RetryCall ==
    /\ retry.pc = "call"
    /\ IF retry.attempt >= retry.max_retries
       THEN retry' = [retry EXCEPT !.pc = "returned"]
       ELSE \/ retry' = [retry EXCEPT !.pc = "returned", !.called = @ + 1,
                                      !.out = <<"result", retry.called + 1>>]
            \/ \E e \in RetryErrors :
                 retry' =
                   IF retry.attempt = retry.max_retries - 1
                   THEN [retry EXCEPT !.pc = "raised", !.called = @ + 1,
                                      !.errors = Append(@, e), !.out = <<"error", e>>]
                   ELSE [retry EXCEPT !.pc = "sleep", !.called = @ + 1,
                                      !.errors = Append(@, e)]
    /\ UNCHANGED <<clientVars, amount, built, asset, resolution, manager>>

\* await asyncio.sleep(wait_time), then the next attempt.
RetrySleep ==
    /\ retry.pc = "sleep"
    /\ retry' = [retry EXCEPT
                   !.pc = "call",
                   !.slept = Append(@, WaitTime(retry.delay, retry.attempt)),
                   !.attempt = @ + 1]
    /\ UNCHANGED <<clientVars, amount, built, asset, resolution, manager>>

NextRetry ==
    \/ RetryCall
    \/ RetrySleep

SpecRetry == InitRetry /\ [][NextRetry]_vars

----------------------------------------------------------------------------
(* Properties *)

\* The error names of the design, as far as the client's exception classes
\* carry them: NetworkNotConnectedError is NotConnected and
\* TransactionFailedError is TransactionFailed; the other classes
\* (Web3ClientError, ContractInteractionError and the library's own) name none
\* of ConfirmationTimeout, SubmissionRejected and EventNotFound.
ErrorName(kind) ==
    CASE kind = "NetworkNotConnectedError" -> "NotConnected"
      [] kind = "TransactionFailedError" -> "TransactionFailed"
      [] OTHER -> kind

\* The hash no transaction has.
NeverMined == TransactionHash(HexOf(0))

\* The receipt the node holds for the transaction call c broadcast.
ReceiptOf(c) == receipts[calls[c].txh]

HasMintEvent(logs) == \E i \in DOMAIN logs : logs[i].event = MintEvent

\* C1: a wait for a hash that never gets a receipt, and that does not end on the
\* liveness probe, ends with the timeout error, raised after more than `timeout`
\* time units since the wait started and at most one poll interval after them.
C1_TimeoutWithinOnePollInterval ==
    \A c \in CallIds :
        (/\ Ended(c)
         /\ calls[c].op = "wait"
         /\ calls[c].hash = NeverMined
         /\ calls[c].out.kind # "NetworkNotConnectedError")
        => /\ calls[c].out.cause = "timeout"
           /\ calls[c].out.elapsed > calls[c].timeout
           /\ calls[c].out.elapsed <= calls[c].timeout + POLL_INTERVAL

\* C2: a confirmation wait that timed out ends with an error kind that is not
\* the one reporting a failed transaction: the timeout is not raised as
\* TransactionFailed, and of two calls of one operation, one that timed out and
\* one whose transaction the node refused, the error kinds differ.
C2_TimeoutDistinctFromFailure ==
    /\ \A c \in CallIds :
          (Ended(c) /\ calls[c].out.cause = "timeout")
          => ErrorName(calls[c].out.kind) # "TransactionFailed"
    /\ \A c, d \in CallIds :
          (/\ Ended(c) /\ Ended(d)
           /\ calls[c].op = calls[d].op
           /\ calls[c].out.cause = "timeout"
           /\ calls[d].out.cause \in {"nonce", "rejected"})
          => calls[c].out.kind # calls[d].out.kind

\* C3: a wait that has polled at least once ends only by returning a receipt a
\* poll observed or by raising on the deadline.
C3_WaitEndsByReceiptOrTimeout ==
    \A c \in CallIds :
        (Ended(c) /\ calls[c].op = "wait" /\ calls[c].polled)
        => \/ IsReceipt(calls[c].out)
           \/ calls[c].out.cause = "timeout"

\* C4: of two calls that signed with the same nonce and whose broadcasts the
\* node answered on the nonce alone, exactly one was accepted, and the other
\* ended with the SubmissionRejected error.
C4_SameNonceOneAcceptedOtherRejected ==
    \A c, d \in CallIds :
        (/\ c # d
         /\ calls[c].nonce >= 0
         /\ calls[c].nonce = calls[d].nonce
         /\ calls[c].answer \in {"accepted", "nonce"}
         /\ calls[d].answer \in {"accepted", "nonce"})
        => /\ (calls[c].answer = "accepted") # (calls[d].answer = "accepted")
           /\ calls[c].answer = "nonce"
                 => (Failed(c) /\ ErrorName(calls[c].out.kind) = "SubmissionRejected")

\* C5: the token id mint_nft returns is the token id of the mint event in the
\* logs of the receipt of the mint transaction.
C5_TokenIdFromMintEvent ==
    \A c \in CallIds :
        (Succeeded(c) /\ calls[c].op = "mint" /\ HasMintEvent(ReceiptOf(c).logs))
        => \E i \in DOMAIN ReceiptOf(c).logs :
              /\ ReceiptOf(c).logs[i].event = MintEvent
              /\ ReceiptOf(c).logs[i].tokenId = calls[c].out.token

\* C6: mint_nft returns no token id when the mint transaction succeeded on chain
\* and its receipt logs hold no mint event.
C6_NoTokenIdWithoutMintEvent ==
    \A c \in CallIds :
        (Succeeded(c) /\ calls[c].op = "mint")
        => ~(ReceiptOf(c).status = 1 /\ ~HasMintEvent(ReceiptOf(c).logs))

\* C7: mint_nft returns a (token id, hash) pair only when the receipt it waited
\* for reports success on chain.
C7_PairOnlyWhenConfirmed ==
    \A c \in CallIds :
        (Succeeded(c) /\ calls[c].op = "mint")
        => (ReceiptOf(c).present /\ ReceiptOf(c).status = 1)

\* C8: while no connect has succeeded on the instance (network is unset), every
\* operation that ends has raised NotConnected.
C8_NotConnectedBeforeConnect ==
    \A c \in CallIds :
        (Ended(c) /\ network = None)
        => ErrorName(calls[c].out.kind) = "NotConnected"

\* C9: a receipt returned by get_transaction_receipt or wait_for_transaction is
\* of a transaction the node holds a receipt for, and its status is Confirmed
\* exactly when the on-chain status is 1 and Failed otherwise, never Pending.
C9_ReceiptStatusFollowsChain ==
    \A c \in CallIds :
        (Ended(c) /\ calls[c].op \in {"wait", "receipt"} /\ IsReceipt(calls[c].out))
        => LET on_chain == receipts[calls[c].hash.digits] IN
           /\ on_chain.present
           /\ calls[c].out.status \in {CONFIRMED, FAILED}
           /\ (calls[c].out.status = CONFIRMED) <=> (on_chain.status = 1)
           /\ (calls[c].out.status = FAILED) <=> (on_chain.status # 1)

\* A wait returned the receipt of a transaction that did not succeed on chain.
C9_FailedReceiptReturned ==
    \E c \in CallIds :
        /\ Ended(c)
        /\ calls[c].op = "wait"
        /\ calls[c].polled
        /\ calls[c].out.status = FAILED
        /\ receipts[calls[c].hash.digits].status = 0

\* C10: the hash mint_nft returns is the hash the node answered at the
\* broadcast of the mint transaction, which the node holds a receipt for, and it
\* is the hash mint_nft waited for.
C10_MintReturnsBroadcastHash ==
    \A c \in CallIds :
        (Succeeded(c) /\ calls[c].op = "mint")
        => /\ calls[c].answer = "accepted"
           /\ calls[c].out.hash # InvalidHash
           /\ calls[c].out.hash.digits = SignedTx(c).hash
           /\ calls[c].out.hash = calls[c].hash
           /\ receipts[calls[c].out.hash.digits].present

\* mint_nft returned a pair.
C10_MintReturned ==
    \E c \in CallIds :
        /\ Succeeded(c)
        /\ calls[c].op = "mint"
        /\ calls[c].out.hash = TransactionHash(HexOf(c))

\* C11: in send_transaction and in mint_nft no other request goes to the node
\* between the read of the sender's transaction count and the signing: counted
\* from the nonce read, the requests made before the transaction is signed are
\* none.
C11_NonceReadLastBeforeSigning ==
    \A c \in CallIds :
        calls[c].op \in {"send", "mint"} => calls[c].nonceAge = 0

FailedStep(cause) ==
    CASE cause = "key" -> "sign"
      [] cause = "nonce_read" -> "nonce"
      [] cause \in {"rejected", "nonce"} -> "broadcast"
      [] OTHER -> "-"

\* C13: two calls of send_transaction that fail at different steps (the nonce
\* read, the signing with the key, the node's refusal of the broadcast) end with
\* errors of different kinds.
C13_EachStepItsOwnError ==
    \A c, d \in CallIds :
        (/\ Failed(c) /\ calls[c].op = "send"
         /\ Failed(d) /\ calls[d].op = "send"
         /\ FailedStep(calls[c].out.cause) # "-"
         /\ FailedStep(calls[d].out.cause) # "-"
         /\ FailedStep(calls[c].out.cause) # FailedStep(calls[d].out.cause))
        => ErrorName(calls[c].out.kind) # ErrorName(calls[d].out.kind)

\* C14: get_transaction_receipt returns None only when the node has no receipt
\* for the hash: a query that failed is never answered with None.
C14_NoneOnlyWithoutReceipt ==
    \A c \in CallIds :
        (/\ Succeeded(c)
         /\ calls[c].op = "receipt"
         /\ calls[c].out.status = None)
        => calls[c].out.cause # "rpc"

\* C15: an estimate_gas whose simulation reverted has ended with the
\* SimulationFailed error, and has returned no GasEstimate.
C15_RevertEndsWithSimulationFailed ==
    \A c \in CallIds :
        calls[c].reverted
        => /\ Failed(c)
           /\ ErrorName(calls[c].out.kind) = "SimulationFailed"

\* C16: an amount of wei converted to ether and back is the amount.
C16_RoundTripExact ==
    amount.pc = "back" => amount.back = amount.wei

\* C17: the GasEstimate estimate_gas returns carries the gas limit and the gas
\* price the node answered in this call; its total_cost_wei is their product
\* and its estimated_cost is that product in ether, exactly.
C17_EstimateFromNodeValues ==
    \A c \in CallIds :
        (Succeeded(c) /\ calls[c].op = "estimate_gas")
        => LET e == calls[c].out
               product == calls[c].nodeGas * calls[c].nodePrice
           IN  /\ e.gas_limit = calls[c].nodeGas
               /\ e.gas_price = calls[c].nodePrice
               /\ total_cost_wei(e) = product
               /\ e.estimated_cost = wei_to_ether(Digits(product))
               /\ ether_to_wei(e.estimated_cost) = Digits(product)

\* estimate_gas returned an estimate whose gas price is not 1.
C17_EstimateReturned ==
    \E c \in CallIds :
        /\ Succeeded(c)
        /\ calls[c].op = "estimate_gas"
        /\ calls[c].out.gas_limit >= INTRINSIC_GAS
        /\ calls[c].out.gas_price > 1

\* C18: two addresses of one class built from strings that differ in letter
\* case only hold the same value, the lower-case form, and are equal.
C18_CaseInsensitiveAddresses ==
    (/\ built.pc = "both"
     /\ built.cls \in AddressClasses
     /\ built.first.ok
     /\ built.second.ok)
    => /\ built.first.value = Lower(built.text)
       /\ built.second.value = Lower(built.other)
       /\ Equal(built.first, built.second)

\* '0x' and then n - 2 hex digits
WellFormed(s, n) ==
    /\ StartsWith0x(s)
    /\ Len(s) = n
    /\ \A i \in 3..Len(s) : s[i] \in HexChars

\* C19: a WalletAddress or ContractAddress is made only of '0x' and 40 hex
\* digits, a TransactionHash only of '0x' and 64 hex digits: the construction
\* from any other string fails.
C19_MalformedTextRefused ==
    (/\ built.pc # "given"
     /\ built.cls \in {"WalletAddress", "ContractAddress", "TransactionHash"}
     /\ built.first.ok)
    => WellFormed(built.text,
                  IF built.cls = "TransactionHash" THEN HASH_LENGTH ELSE ADDRESS_LENGTH)

\* C20: once a connect has succeeded, no step changes the endpoint, the network
\* or the chain id of the instance.
C20_NoSwitchAfterConnect ==
    [][network # None => /\ w3' = w3
                         /\ network' = network
                         /\ chain_id' = chain_id]_vars

\* C21: while the client holds a Web3 for a proof-of-authority network (sepolia,
\* mumbai, localhost), its onion has the shim and the liveness probe of connect
\* went through the shim; while it holds one for a main network (mainnet,
\* polygon), the onion has no shim.
C21_ShimBeforeFirstRead ==
    w3 # None =>
        IF w3 \in PoANetworks
        THEN middleware.poa /\ ~middleware.bareProbe
        ELSE ~middleware.poa

\* A connect to a proof-of-authority network has run and its probe answered.
C21_ShimmedConnect ==
    /\ w3 = "sepolia"
    /\ network = "sepolia"
    /\ middleware.poa

\* The fields of the client instance.
Fields == <<w3, middleware, network, chain_id, contracts, subscriptions>>

\* C22: no step of a send_transaction or mint_nft call changes a field of the
\* instance (w3, network, chain_id, _contracts, _subscriptions), so each has
\* its earlier value when the call returns or raises; no log record and no
\* error text of such a call contains the private key.
C22_KeyNotRetained ==
    /\ [][(\E c \in CallIds : /\ calls'[c] # calls[c]
                               /\ calls'[c].op \in {"mint", "send"})
            => Fields' = Fields /\ log' = log]_vars
    /\ [](\A c \in CallIds : "private_key" \notin calls[c].out.text)
    /\ [](\A r \in log : "private_key" \notin r.parts)

\* A send_transaction on a connected instance was refused the key by the
\* signing call and raised.
C22_KeyRefused ==
    /\ calls[1].op = "send"
    /\ Failed(1)
    /\ calls[1].out.cause = "key"
    /\ network # None

\* C23: a mint_nft whose metadata has a royalty outside 0..10000 basis points
\* never has a built and signed transaction on its way to the node and has
\* broadcast none.
C23_RoyaltyOutOfRangeRejected ==
    \A c \in CallIds :
        (calls[c].op = "mint" /\ calls[c].royalty \notin 0..10000)
            => /\ calls[c].broadcasts = 0
               /\ calls[c].pc \notin {"m_send", "wait"}

\* C24: a request to the wallet-balance endpoint that ended on the client
\* reporting it is not connected, or on a malformed address, was answered with
\* a 4xx status; one that ended on an error of the node was answered with a
\* 5xx status.
C24_BalanceEndpointStatus ==
    \A c \in CallIds :
        (calls[c].api /\ Failed(c)) =>
            /\ calls[c].out.kind \in {"NetworkNotConnectedError", "ValueError"}
                  => calls[c].out.http \in 400..499
            /\ calls[c].out.kind = "ConnectionError"
                  => calls[c].out.http \in 500..599

\* C25: what the drains returned so far, followed by what the list holds, is
\* every event ever added, once each and in the order added; a
\* get_domain_events returns the list as it was and leaves it empty.
C25_EachEventDrainedOnce ==
    /\ [](LET events == asset.returned \o asset.domain_events IN
             [i \in DOMAIN events |-> events[i].id] = [i \in 1..asset.added |-> i])
    /\ [][asset'.last.op = "get_domain_events"
            => /\ asset'.domain_events = <<>>
               /\ asset'.last.events = asset.domain_events]_vars

\* A second drain has returned two events added after the first drain.
C25_SecondDrain ==
    /\ asset.last.op = "get_domain_events"
    /\ Len(asset.last.events) = 2
    /\ Len(asset.returned) > 2
    /\ asset.domain_events = <<>>

\* C27: a call of an operation of the asset that returns has appended one
\* event to the list and a call that raises has left the list as it was.
C27_OneEventPerOperation ==
    [][asset'.last.op \in
            {"update_metadata", "update_royalty_info", "start_verification", "verify",
             "reject_verification", "start_minting", "complete_minting",
             "list_for_sale", "mark_as_sold"}
         => IF asset'.last.raised
            THEN asset'.domain_events = asset.domain_events
            ELSE /\ Len(asset'.domain_events) = Len(asset.domain_events) + 1
                 /\ SubSeq(asset'.domain_events, 1, Len(asset.domain_events))
                       = asset.domain_events]_vars

\* A complete_minting raised on the contract address after three operations
\* had returned.
C27_RaisedAfterEvents ==
    /\ asset.last.op = "complete_minting"
    /\ asset.last.raised
    /\ asset.status = "MINTING"
    /\ Len(asset.domain_events) = 3

\* C28: once start_minting has succeeded (the status has left DRAFT), a call of
\* update_metadata raises and leaves the metadata as it was.
C28_NoMetadataUpdateOnceMinting ==
    [][(asset.status # "DRAFT" /\ asset'.last.op = "update_metadata")
         => asset'.last.raised /\ asset'.metadata = asset.metadata]_vars

\* C29: an asset whose status is MINTING, MINTED, LISTED or SOLD is verified.
C29_MintedIsVerified ==
    asset.status \in {"MINTING", "MINTED", "LISTED", "SOLD"}
        => asset.verification_status = "VERIFIED"

\* The place of a status on the way from DRAFT to SOLD.
Rank(status) ==
    CASE status = "DRAFT" -> 0
      [] status = "MINTING" -> 1
      [] status = "MINTED" -> 2
      [] status = "LISTED" -> 3
      [] status = "SOLD" -> 4

\* C30: no step moves the status of the asset to an earlier one, and no step
\* changes the status SOLD.
C30_StatusOnlyForward ==
    [][/\ Rank(asset'.status) >= Rank(asset.status)
       /\ asset.status = "SOLD" => asset'.status = "SOLD"]_vars

\* The names plugin p needs, directly or through other plugins, within k
\* steps.
RECURSIVE Needs(_, _, _)
Needs(deps, names, k) ==
    IF k = 0 THEN names
    ELSE Needs(deps,
               names \cup UNION {deps[q] : q \in names \ {UNREGISTERED}},
               k - 1)

\* The dependencies contain a cycle or name a plugin that is not registered.
Unresolvable(r) ==
    \E p \in 1..r.n :
        LET needed == Needs(r.deps, r.deps[p], r.n) IN
        p \in needed \/ UNREGISTERED \in needed

\* C26: a resolution that returned gave a list that holds every registered
\* plugin once, each after the plugins it names as dependencies, and the
\* dependencies were resolvable; one that raised ValueError had a cycle or an
\* unregistered name among the dependencies; every resolution returns or
\* raises.
C26_LoadOrderOrValueError ==
    /\ [](resolution.pc = "returned" =>
            /\ ~Unresolvable(resolution)
            /\ Len(resolution.loaded) = resolution.n
            /\ Elements(resolution.loaded) = 1..resolution.n
            /\ \A i \in DOMAIN resolution.loaded :
                  \A dep \in resolution.deps[resolution.loaded[i]] :
                      \E j \in 1..(i - 1) : resolution.loaded[j] = dep)
    /\ [](resolution.pc = "raised" =>
            resolution.error = "ValueError" /\ Unresolvable(resolution))
    /\ <>(resolution.pc \in {"returned", "raised"})

\* A resolution returned an order that puts the plugin registered last first.
C26_Reordered ==
    /\ resolution.pc = "returned"
    /\ resolution.n = NumPlugins
    /\ resolution.loaded[1] = NumPlugins
    /\ resolution.passes > 1

\* C31: a call of an operation of the asset that raises leaves the status, the
\* verification status, the token id, the contract address, the metadata, the
\* royalty info, the verification attempts and the event list as they were.
C31_RaiseChangesNothing ==
    [][(asset'.last.op # "get_domain_events" /\ asset'.last.raised)
         => [asset' EXCEPT !.last = asset.last] = asset]_vars

\* C32: no step changes a token id that is set.
C32_TokenIdSetOnce ==
    [][asset.token_id # Nothing => asset'.token_id = asset.token_id]_vars

\* C33: a start_verification that follows a start_verification that returned,
\* with no other call in between, raises and leaves the attempt counter as it
\* was.
C33_SecondStartVerificationRaises ==
    [][(/\ asset.last.op = "start_verification"
        /\ ~asset.last.raised
        /\ asset'.last.op = "start_verification")
         => /\ asset'.last.raised
            /\ asset'.verification_attempts = asset.verification_attempts]_vars

\* C34: whenever the connectivity check of an operation would pass, the chain
\* id of the instance is set and is the one configured for the network whose
\* endpoint w3 points to.
C34_ChainIdOfEndpoint ==
    IsConnected => network # None /\ chain_id = ChainIdOf(w3)

\* C35: a wait_for_transaction that ended has queried the receipt at least
\* once, whatever its timeout; when its last query answered a receipt it
\* returned that receipt, also after the deadline, and it raised the timeout
\* only on a query that answered none.
C35_ReceiptBeforeDeadline ==
    \A c \in CallIds :
        (Ended(c) /\ calls[c].op = "wait") =>
            /\ calls[c].seen # "-"
            /\ calls[c].seen = "receipt" => IsReceipt(calls[c].out)
            /\ calls[c].out.cause = "timeout" => calls[c].seen = "no_receipt"

\* A wait with timeout 0 returned a receipt that its first query, made after
\* the deadline, answered.
C35_ReceiptAfterDeadline ==
    \E c \in CallIds :
        /\ Succeeded(c)
        /\ calls[c].op = "wait"
        /\ calls[c].timeout = 0
        /\ ~calls[c].polled
        /\ calls[c].out.elapsed > calls[c].timeout
        /\ calls[c].seen = "receipt"

\* C36: once _load_plugins has returned, every plugin an active plugin depends
\* on is active too.
C36_ActiveOnlyWithActiveDependencies ==
    manager.pc = "ready" =>
        \A p \in Elements(manager.active) :
            \A dep \in resolution.deps[p] : dep \in Elements(manager.active)

\* C37: an on_event or a shutdown that raises is logged and never leaves the
\* operation; when broadcast_event has returned, on_event was called on the
\* plugins subscribed to the event's type, once each and in subscription order;
\* when shutdown has returned, shutdown was called once on each plugin that was
\* active, and no plugin is active and no subscription is left.
C37_EveryPluginCalledOnce ==
    /\ manager.pc \in {"ready", "broadcast", "shutdown"} =>
          ~manager.propagated
    /\ (manager.pc = "ready" /\ manager.event \in EventTypes) =>
          manager.called = manager.subs[manager.event]
    /\ (manager.pc = "ready" /\ manager.i = 0) =>
          /\ manager.active = <<>>
          /\ \A t \in EventTypes : manager.subs[t] = <<>>
          /\ Cardinality(Elements(manager.called)) = Len(manager.called)
    /\ manager.pc = "shutdown" =>
          manager.called = SubSeq(manager.active, 1, manager.i - 1)

\* An event reached two subscribers although the handler of the first raised.
C37_DeliveredAfterFailure ==
    /\ manager.pc = "ready"
    /\ manager.event \in EventTypes
    /\ Len(manager.called) >= 2
    /\ manager.logged >= 1
    /\ manager.logged < Len(manager.called)


\* C38: _retry_on_failure calls func at most max_retries times; every call
\* before the last one made failed and was followed by one sleep, of delay *
\* 2^k after the failure of call k+1, and no sleep follows the last call; with
\* max_retries >= 1 it returns the result of the call that succeeded, or
\* raises, after max_retries failures, the error of the last call.
C38_RetryWithBackoff ==
    /\ retry.pc # "-" =>
          /\ retry.called <= retry.max_retries
          /\ retry.slept = [k \in 1..Len(retry.slept) |-> retry.delay * 2 ^ (k - 1)]
          /\ Len(retry.slept) = IF retry.pc = "call" \/ retry.called = 0
                                THEN retry.called ELSE retry.called - 1
    /\ (retry.pc = "returned" /\ retry.max_retries >= 1) =>
          /\ retry.out = <<"result", retry.called>>
          /\ Len(retry.errors) = retry.called - 1
    /\ retry.pc = "raised" =>
          /\ retry.called = retry.max_retries
          /\ Len(retry.errors) = retry.max_retries
          /\ retry.out = <<"error", retry.errors[retry.max_retries]>>

\* Three calls failed, the last with another error than the first, and the
\* error of the last was raised after two sleeps.
C38_LastErrorRaised ==
    /\ retry.pc = "raised"
    /\ retry.called = 3
    /\ retry.delay >= 1
    /\ Len(retry.slept) = 2
    /\ retry.errors[1] # retry.errors[3]


====
